---------------------------- MODULE Spec2Model ----------------------------
(* A model of src/stores/media-store.ts: the media catalog store            *)
(* (folders, media items, background persistence and migration tasks) and   *)
(* the split/merge partitioner used for per-project storage.                *)
(*                                                                          *)
(* Conventions.  Ids produced by generateUUID() are the naturals 1, 2, ...  *)
(* handed out by the counter nextId (fresh, never reused); null ids are 0.  *)
(* A missing projectId (undefined) is the string NoProject, which differs   *)
(* from the empty string "" (both are falsy in the source).  A URL is a     *)
(* record [scheme, ref]: the scheme is what startsWith() tests in the       *)
(* source, ref tells two URLs of the same scheme apart.                     *)
EXTENDS Naturals, Integers, Sequences, FiniteSets, TLC

VARIABLES
    \* ---- the store (MediaStore, media-store.ts:59-64, 236-239)
    mediaFiles,       \* Seq of media item records
    folders,          \* Seq of folder records
    currentFolderId,  \* folder id, 0 for null
    isLoading,        \* BOOLEAN
    \* ---- the environment of the store
    nextId,           \* generateUUID(): the next fresh id
    tasks,            \* the async continuations in flight (set of records)
    storage,          \* storageService: the media records it holds
    loadCount,        \* number of loadProjectMedia calls made so far
    revoked,          \* blob URLs passed to URL.revokeObjectURL at least once
    revokedTwice,     \* blob URLs passed to URL.revokeObjectURL more than once
    lastOp,           \* history: the operation that produced this state
    \* ---- the split/merge pipeline of the persistence layer
    phase,            \* position in the split / merge round trip
    catalog,          \* the MediaPersistedState handed to splitMediaData
    pid,              \* the project id handed to splitMediaData
    parts,            \* result of splitMediaData
    merged,           \* result of mergeMediaData on parts
    parts2,           \* result of splitMediaData on merged
    merged2,          \* result of mergeMediaData on parts2
    \* ---- one IndexedDBAdapter instance and the database under it
    dbPromise,        \* this.dbPromise: 0 for null, else the number of an open request
    opens,            \* Seq: the state of each indexedDB.open request issued
    closed,           \* the connections on which db.close() has been called
    calls,            \* Seq: the calls made on the adapter (records)
    dbStore,          \* the keys held by the object store
    lastCall,         \* history: the adapter step that produced this state
    deletion,         \* the request and the promise of IndexedDBAdapter.deleteDatabase
    \* ---- partialize of the persist middleware
    persistIn,        \* the mediaFiles handed to partialize
    persistOut        \* the mediaFiles partialize returned

storeVars == <<mediaFiles, folders, currentFolderId, isLoading, nextId, tasks,
               storage, loadCount, revoked, revokedTwice, lastOp>>
splitVars == <<phase, catalog, pid, parts, merged, parts2, merged2>>
adapterVars == <<dbPromise, opens, closed, calls, dbStore, lastCall, deletion>>
persistVars == <<persistIn, persistOut>>
sideVars == <<adapterVars, persistVars>>
vars == <<storeVars, splitVars, sideVars>>

----------------------------------------------------------------------------
(* Bounds of the model *)

MaxIds == 4              \* ids generateUUID() hands out in one behaviour
MaxLoads == 2            \* calls of loadProjectMedia in one behaviour
MaxTreeFolders == 3      \* folders made by addFolder at one time (TreeSpec)
MaxTreeItems == 2        \* media items in mediaFiles at one time (TreeSpec)
MaxScopedFolders == 2    \* folders made by addFolder at one time (SystemSpec)
MaxScopedItems == 1      \* media items in mediaFiles at one time (SystemSpec)
MaxMediaItems == 2       \* media items in mediaFiles at one time (MediaSpec)
MaxMediaIds == 2         \* media items added in one behaviour (MediaSpec)
MaxMediaLoads == 1       \* calls of loadProjectMedia in one behaviour (MediaSpec)
MaxSplitFolders == 2     \* folders of a catalog handed to splitMediaData
MaxSplitItems == 1       \* media items of a catalog handed to splitMediaData

----------------------------------------------------------------------------
(* Values *)

NullId == 0
NoProject == "<undefined>"
ProjectIds == {"", "p1"}                  \* project ids callers pass
OtherProject == "p2"                      \* a project that is never the active one

\* JavaScript truthiness of a projectId (undefined and "" are falsy)
Truthy(p) == p \notin {NoProject, ""}

NoCategory == "<none>"
\* the names are transliterated: LegacyName is the legacy label at line 582
LegacyName == "AI-shengcheng"

SeqToSet(s) == {s[i] : i \in 1..Len(s)}
IdsOf(s) == {s[i].id : i \in 1..Len(s)}
MapSeq(s, F(_)) == [i \in 1..Len(s) |-> F(s[i])]

\* URLs.  gen tells the object URLs made for one item by different loads apart
\* (0: the URL the item was added with).
NoUrl == [scheme |-> "none", ref |-> 0, gen |-> 0]
Blob(n, g) == [scheme |-> "blob:", ref |-> n, gen |-> g]
Data(n) == [scheme |-> "data:", ref |-> n, gen |-> 0]
Http(n) == [scheme |-> "http", ref |-> n, gen |-> 0]
Local(n) == [scheme |-> "local-image://", ref |-> n, gen |-> 0]

\* history record: the operation that produced the state, its id argument
\* (or the id it created), and a set of ids summarising its effect
Op(op, id, aux) == [op |-> op, id |-> id, aux |-> aux]

Folder(id, name, parentId, projectId, isSystem, isAutoCreated, category) ==
    [id |-> id, name |-> name, parentId |-> parentId, projectId |-> projectId,
     isSystem |-> isSystem, isAutoCreated |-> isAutoCreated, category |-> category]

Item(id, type, url, thumbnailUrl, folderId, projectId, file) ==
    [id |-> id, type |-> type, url |-> url, thumbnailUrl |-> thumbnailUrl,
     folderId |-> folderId, projectId |-> projectId, file |-> file]

----------------------------------------------------------------------------
(* Split / merge for per-project storage (media-store.ts:18-45) *)

EmptyState == [folders |-> <<>>, mediaFiles |-> <<>>]

InProjectFolders(f, p) == f.projectId = p /\ ~f.isSystem
InProjectFiles(f, p) == f.projectId = p
\* a plausible slip: the shared filter forgets to hold back auto-created folders
InSharedFoldersMutant(f) == f.isSystem \/ ~Truthy(f.projectId)

InSharedFolders(f) == f.isSystem \/ (~Truthy(f.projectId) /\ ~f.isAutoCreated)
InSharedFiles(f) == ~Truthy(f.projectId)

splitMediaData(state, p) ==
    [projectData |->
        [folders |-> SelectSeq(state.folders, LAMBDA f : InProjectFolders(f, p)),
         mediaFiles |-> SelectSeq(state.mediaFiles, LAMBDA f : InProjectFiles(f, p))],
     sharedData |->
        [folders |-> SelectSeq(state.folders, InSharedFolders),
         mediaFiles |-> SelectSeq(state.mediaFiles, InSharedFiles)]]

\* an argument that may be null is a sequence of length 0 (null) or 1
OrEmpty(opt) == IF opt = <<>> THEN EmptyState ELSE opt[1]

mergeMediaData(projectData, sharedData) ==
    [folders |-> OrEmpty(sharedData).folders \o OrEmpty(projectData).folders,
     mediaFiles |-> OrEmpty(sharedData).mediaFiles \o OrEmpty(projectData).mediaFiles]

NoParts == [projectData |-> EmptyState, sharedData |-> EmptyState]

\* the catalogs handed to splitMediaData: every combination of projectId,
\* isSystem and isAutoCreated on the folders, every projectId on the items
SplitProjectIds == {NoProject, "", "p1", OtherProject}

SplitFolderAt(i) ==
    {Folder(i, "Clips", NullId, p, s, a, IF s THEN "upload" ELSE NoCategory) :
        p \in SplitProjectIds, s \in BOOLEAN, a \in BOOLEAN}

SplitItemAt(i) ==
    {Item(i, "image", Http(i), NoUrl, NullId, p, FALSE) : p \in SplitProjectIds}

SplitFolderSeqs ==
    UNION {{s \in [1..n -> UNION {SplitFolderAt(i) : i \in 1..n}] :
                \A i \in 1..n : s[i] \in SplitFolderAt(i)} : n \in 0..MaxSplitFolders}

SplitItemSeqs ==
    UNION {{s \in [1..n -> UNION {SplitItemAt(MaxSplitFolders + 1 + i) : i \in 1..n}] :
                \A i \in 1..n : s[i] \in SplitItemAt(MaxSplitFolders + 1 + i)} :
           n \in 0..MaxSplitItems}

StoreIdle ==
    /\ mediaFiles = <<>>
    /\ folders = <<>>
    /\ currentFolderId = NullId
    /\ isLoading = FALSE
    /\ nextId = 1
    /\ tasks = {}
    /\ storage = {}
    /\ loadCount = 0
    /\ revoked = {}
    /\ revokedTwice = {}
    /\ lastOp = Op("init", NullId, {})

SplitIdle ==
    /\ phase = "idle"
    /\ catalog = EmptyState
    /\ pid = ""
    /\ parts = NoParts
    /\ merged = EmptyState
    /\ parts2 = NoParts
    /\ merged2 = EmptyState

\* deleteDatabase has not been called: no request, no promise
NoDelete == [request |-> "none", blocked |-> FALSE, promise |-> "none", made |-> 0]

\* no call has been made on the adapter (dbPromise = null, line 731)
AdapterIdle ==
    /\ deletion = NoDelete
    /\ dbPromise = 0
    /\ opens = <<>>
    /\ closed = {}
    /\ calls = <<>>
    /\ dbStore = {}
    /\ lastCall = [step |-> "init", call |-> 0, open |-> 0]

PersistIdle ==
    /\ persistIn = <<>>
    /\ persistOut = <<>>

SideIdle == AdapterIdle /\ PersistIdle

SplitInit ==
    /\ StoreIdle
    /\ SideIdle
    /\ phase = "start"
    /\ catalog \in [folders : SplitFolderSeqs, mediaFiles : SplitItemSeqs]
    /\ pid \in ProjectIds
    /\ parts = NoParts
    /\ merged = EmptyState
    /\ parts2 = NoParts
    /\ merged2 = EmptyState

\* setItem: the catalog is split into the two partitions
Split ==
    /\ phase = "start"
    /\ phase' = "split"
    /\ parts' = splitMediaData(catalog, pid)
    /\ UNCHANGED <<catalog, pid, merged, parts2, merged2, storeVars, sideVars>>

\* getItem: the two partitions are merged back
Merge ==
    /\ phase = "split"
    /\ phase' = "merged"
    /\ merged' = mergeMediaData(<<parts.projectData>>, <<parts.sharedData>>)
    /\ UNCHANGED <<catalog, pid, parts, parts2, merged2, storeVars, sideVars>>

\* the merged catalog is written again ...
Resplit ==
    /\ phase = "merged"
    /\ phase' = "resplit"
    /\ parts2' = splitMediaData(merged, pid)
    /\ UNCHANGED <<catalog, pid, parts, merged, merged2, storeVars, sideVars>>

\* ... and read again
Remerge ==
    /\ phase = "resplit"
    /\ phase' = "remerged"
    /\ merged2' = mergeMediaData(<<parts2.projectData>>, <<parts2.sharedData>>)
    /\ UNCHANGED <<catalog, pid, parts, merged, parts2, storeVars, sideVars>>

SplitNext == Split \/ Merge \/ Resplit \/ Remerge

SplitSpec == SplitInit /\ [][SplitNext]_vars


----------------------------------------------------------------------------
(* The catalog store: values (media-store.ts:49-57, 233-239) *)

\* the display names are transliterated
SYSTEM_CATEGORIES ==
    << [category |-> "ai-image", name |-> "AI-tupian"],
       [category |-> "ai-video", name |-> "AI-shipin"],
       [category |-> "upload", name |-> "shangchuan-wenjian"] >>

Categories == {SYSTEM_CATEGORIES[i].category : i \in 1..Len(SYSTEM_CATEGORIES)}

\* names callers give to folders
FolderNames == {LegacyName, "Clips"}

\* ids generateUUID() has handed out so far: what a caller can hold
KnownIds == 1..(nextId - 1)

\* Array.prototype.find: the index of the first element satisfying P, 0 if none
FirstIndex(s, P(_)) ==
    IF \E i \in 1..Len(s) : P(s[i])
    THEN CHOOSE i \in 1..Len(s) : P(s[i]) /\ \A j \in 1..(i - 1) : ~P(s[j])
    ELSE 0

IsSystemOf(f, category) == f.isSystem /\ f.category = category

----------------------------------------------------------------------------
(* Folder management (media-store.ts:405-456) *)

\* a plausible slip: the new folder's own id is written as its parentId
addFolderOwnParent(fs, id, name, parentId, projectId) ==
    Append(fs, Folder(id, name, id, projectId, FALSE, Truthy(projectId), NoCategory))

\* lines 407-418
addFolder(fs, id, name, parentId, projectId) ==
    Append(fs, Folder(id, name, parentId, projectId, FALSE, Truthy(projectId), NoCategory))

AddFolderWith(names, parentIds, projectIds, limit) ==
    \E name \in names, parentId \in parentIds, projectId \in projectIds :
        /\ nextId <= MaxIds
        /\ Cardinality({i \in 1..Len(folders) : folders[i].category = NoCategory})
             < limit
        /\ folders' = addFolder(folders, nextId, name, parentId, projectId)
        /\ nextId' = nextId + 1
        /\ lastOp' = Op("addFolder", nextId, {})
        /\ UNCHANGED <<mediaFiles, currentFolderId, isLoading, tasks, storage,
                       loadCount, revoked, revokedTwice, splitVars, sideVars>>

AddFolder ==
    AddFolderWith(FolderNames, {NullId} \cup KnownIds, {NoProject} \cup ProjectIds, MaxIds)

renameFolder(fs, id, name) ==
    MapSeq(fs, LAMBDA f : IF f.id = id THEN [f EXCEPT !.name = name] ELSE f)

RenameFolderWith(names) ==
    \E id \in IdsOf(folders), name \in names :
        /\ folders' = renameFolder(folders, id, name)
        /\ lastOp' = Op("renameFolder", id, {})
        /\ UNCHANGED <<mediaFiles, currentFolderId, isLoading, nextId, tasks, storage,
                       loadCount, revoked, revokedTwice, splitVars, sideVars>>

RenameFolder == RenameFolderWith(FolderNames)

\* a plausible slip: only the direct children are collected
getDescendantIdsShallow(fs, folderId) ==
    {folderId} \cup {f.id : f \in {g \in SeqToSet(fs) : g.parentId = folderId}}

\* the recursive closure over parentId (lines 436-439); only membership in
\* the result is used, so it is a set
RECURSIVE getDescendantIds(_, _)
getDescendantIds(fs, folderId) ==
    {folderId} \cup
    UNION {getDescendantIds(fs, c.id) : c \in {f \in SeqToSet(fs) : f.parentId = folderId}}

\* a plausible slip: the guard is missing
IsSystemTargetNever(fs, id) == FALSE

\* a plausible slip: the guard protects a system folder only while it is empty
IsSystemTargetChildless(fs, id) ==
    /\ \E i \in 1..Len(fs) : fs[i].id = id /\ fs[i].isSystem
    /\ \A i \in 1..Len(fs) : fs[i].parentId # id

\* line 433-434: the guard that makes deleteFolder return early
IsSystemTarget(fs, id) ==
    LET t == FirstIndex(fs, LAMBDA f : f.id = id) IN t # 0 /\ fs[t].isSystem

\* f.folderId || '' is never an id: a null folderId (0) is in no id set
DeleteFolder ==
    \E id \in KnownIds :
        /\ lastOp' = Op("deleteFolder", id,
                        IF IsSystemTarget(folders, id) THEN {}
                        ELSE LET del == getDescendantIds(folders, id) IN
                             {f.id : f \in {g \in SeqToSet(folders) : g.id \in del}} \cup
                             {m.id : m \in {n \in SeqToSet(mediaFiles) : n.folderId \in del}})
        /\ IF IsSystemTarget(folders, id)
           THEN UNCHANGED <<folders, mediaFiles, currentFolderId>>
           ELSE LET folderIdsToDelete == getDescendantIds(folders, id) IN
                /\ mediaFiles' = MapSeq(mediaFiles, LAMBDA f :
                        IF f.folderId \in folderIdsToDelete
                        THEN [f EXCEPT !.folderId = NullId] ELSE f)
                /\ folders' = SelectSeq(folders, LAMBDA f : f.id \notin folderIdsToDelete)
                /\ currentFolderId' = IF currentFolderId \in folderIdsToDelete
                                      THEN NullId ELSE currentFolderId
        /\ UNCHANGED <<isLoading, nextId, tasks, storage, loadCount, revoked,
                       revokedTwice, splitVars, sideVars>>

SetCurrentFolder ==
    \E id \in {NullId} \cup IdsOf(folders) :
        /\ currentFolderId' = id
        /\ lastOp' = Op("setCurrentFolder", id, {})
        /\ UNCHANGED <<mediaFiles, folders, isLoading, nextId, tasks, storage,
                       loadCount, revoked, revokedTwice, splitVars, sideVars>>

----------------------------------------------------------------------------
(* System folders and project scoping (media-store.ts:538-623) *)

\* a plausible slip: a system folder is created without looking for one
HasSystemFolderNever(fs, category) == FALSE

\* folders.find((f) => f.isSystem && f.category === category), as a test
HasSystemFolder(fs, category) == \E i \in 1..Len(fs) : IsSystemOf(fs[i], category)

SystemFolder(id, name, category) ==
    Folder(id, name, NullId, NoProject, TRUE, FALSE, category)

CategoryName(category) ==
    LET i == FirstIndex(SYSTEM_CATEGORIES, LAMBDA c : c.category = category)
    IN IF i # 0 THEN SYSTEM_CATEGORIES[i].name ELSE category

GetOrCreateCategoryFolderWith(categories) ==
    \E category \in categories :
        IF HasSystemFolder(folders, category)
        THEN /\ lastOp' = Op("getOrCreateCategoryFolder",
                             folders[FirstIndex(folders,
                                 LAMBDA f : IsSystemOf(f, category))].id, {})
             /\ UNCHANGED <<folders, nextId>>
             /\ UNCHANGED <<mediaFiles, currentFolderId, isLoading, tasks, storage,
                            loadCount, revoked, revokedTwice, splitVars, sideVars>>
        ELSE /\ nextId <= MaxIds
             /\ folders' = Append(folders,
                                  SystemFolder(nextId, CategoryName(category), category))
             /\ nextId' = nextId + 1
             /\ lastOp' = Op("getOrCreateCategoryFolder", nextId, {nextId})
             /\ UNCHANGED <<mediaFiles, currentFolderId, isLoading, tasks, storage,
                            loadCount, revoked, revokedTwice, splitVars, sideVars>>

GetOrCreateCategoryFolder == GetOrCreateCategoryFolderWith(Categories)

\* lines 565-579: the folders to create, with ids from nid on, in the order of
\* SYSTEM_CATEGORIES
RECURSIVE NewSystemFolders(_, _, _)
NewSystemFolders(fs, nid, i) ==
    IF i > Len(SYSTEM_CATEGORIES) THEN <<>>
    ELSE IF ~HasSystemFolder(fs, SYSTEM_CATEGORIES[i].category)
         THEN <<SystemFolder(nid, SYSTEM_CATEGORIES[i].name, SYSTEM_CATEGORIES[i].category)>>
              \o NewSystemFolders(fs, nid + 1, i + 1)
         ELSE NewSystemFolders(fs, nid, i + 1)

IsLegacyAiFolder(f) == f.name = LegacyName /\ ~f.isSystem /\ f.parentId = NullId

\* lines 563-610: the folders after initSystemFolders, ids drawn from nid on
initSystemFolders(fs, nid) ==
    LET newFolders == NewSystemFolders(fs, nid, 1)
        legacy == FirstIndex(fs, IsLegacyAiFolder)
        hasAiImageFolder ==
            \/ HasSystemFolder(fs, "ai-image")
            \/ \E i \in 1..Len(newFolders) : newFolders[i].category = "ai-image"
        migrate == legacy # 0 /\ ~hasAiImageFolder
        migrated ==
            IF migrate
            THEN MapSeq(fs, LAMBDA f :
                    IF f.id = fs[legacy].id
                    THEN [f EXCEPT !.name = "AI-tupian", !.isSystem = TRUE,
                                   !.category = "ai-image", !.projectId = NoProject]
                    ELSE f)
            ELSE fs
        remaining ==
            IF migrate
            THEN SelectSeq(newFolders, LAMBDA f : f.category # "ai-image")
            ELSE newFolders
    IN migrated \o remaining

InitSystemFolders ==
    LET created == Len(NewSystemFolders(folders, nextId, 1)) IN
        /\ nextId + created <= MaxIds + 1
        /\ folders' = initSystemFolders(folders, nextId)
        /\ nextId' = nextId + created
        /\ lastOp' = Op("initSystemFolders", NullId,
                        IdsOf(initSystemFolders(folders, nextId)) \ IdsOf(folders))
        /\ UNCHANGED <<mediaFiles, currentFolderId, isLoading, tasks, storage,
                       loadCount, revoked, revokedTwice, splitVars, sideVars>>

\* a plausible slip: system folders are stamped like any other folder
KeepsFolderScopeNoSystem(folder) == Truthy(folder.projectId)

\* line 620: folder.projectId || folder.isSystem
KeepsFolderScope(folder) == Truthy(folder.projectId) \/ folder.isSystem

assignFolders(fs, projectId) ==
    MapSeq(fs, LAMBDA folder :
        IF KeepsFolderScope(folder) THEN folder ELSE [folder EXCEPT !.projectId = projectId])

\* a plausible slip: every item is stamped, scoped or not
assignFilesAll(files, projectId) ==
    MapSeq(files, LAMBDA media : [media EXCEPT !.projectId = projectId])

assignFiles(files, projectId) ==
    MapSeq(files, LAMBDA media :
        IF Truthy(media.projectId) THEN media ELSE [media EXCEPT !.projectId = projectId])

AssignProjectToUnscopedWith(projectIds) ==
    \E projectId \in projectIds :
        /\ mediaFiles' = assignFiles(mediaFiles, projectId)
        /\ folders' = assignFolders(folders, projectId)
        /\ lastOp' = Op("assignProjectToUnscoped", NullId, {})
        /\ UNCHANGED <<currentFolderId, isLoading, nextId, tasks, storage,
                       loadCount, revoked, revokedTwice, splitVars, sideVars>>

AssignProjectToUnscoped == AssignProjectToUnscopedWith(ProjectIds)

----------------------------------------------------------------------------
(* Media items: the synchronous part of the operations *)

NoItem == Item(NullId, "none", NoUrl, NoUrl, NullId, NoProject, FALSE)

\* an async continuation in flight: which await it is parked at (kind, stage)
\* and what its closure captured
Task(kind, stage, projectId, item, queue, n) ==
    [kind |-> kind, stage |-> stage, projectId |-> projectId, item |-> item,
     queue |-> queue, n |-> n]

HasUrl(u) == u.scheme # "none"
IsBlob(u) == u.scheme = "blob:"
StartsWithData(u) == u.scheme = "data:"
StartsWithHttp(u) == u.scheme = "http"

\* the object URLs among the url and thumbnailUrl of the items of files
BlobsOf(files) ==
    {u \in {files[i].url : i \in 1..Len(files)} \cup
           {files[i].thumbnailUrl : i \in 1..Len(files)} : IsBlob(u)}

\* URL.revokeObjectURL on each of urls (a no-op on what is no object URL)
Revoke(urls) ==
    LET blobs == {u \in urls : IsBlob(u)} IN
    /\ revoked' = revoked \cup blobs
    /\ revokedTwice' = revokedTwice \cup (blobs \cap revoked)

\* lines 341-344, 365-372, 392-399: every url and thumbnailUrl that is set
AllUrls(files) ==
    {u \in {files[i].url : i \in 1..Len(files)} \cup
           {files[i].thumbnailUrl : i \in 1..Len(files)} : HasUrl(u)}

\* lines 315-320: the thumbnail is revoked only inside the test of the url
UrlsOfRemoved(files, id) ==
    LET i == FirstIndex(files, LAMBDA m : m.id = id) IN
    IF i # 0 /\ HasUrl(files[i].url)
    THEN {files[i].url} \cup {u \in {files[i].thumbnailUrl} : HasUrl(u)}
    ELSE {}

\* what a caller of addMediaFile passes: an uploaded image, or an uploaded
\* video with the data: thumbnail generateVideoThumbnail makes (line 177)
UploadTypes == {"image", "video"}

AddMediaFileWith(projectIds, types, folderIds, limit) ==
    \E projectId \in projectIds, type \in types, folderId \in folderIds :
        LET newItem == Item(nextId, type, Blob(nextId, 0),
                            IF type = "video" THEN Data(nextId) ELSE NoUrl,
                            folderId, projectId, TRUE)
        IN  /\ nextId <= MaxIds
            /\ Len(mediaFiles) < limit
            /\ nextId' = nextId + 1
            /\ mediaFiles' = Append(mediaFiles, newItem)
            \* line 255-256: saveMediaFile is called and awaited
            /\ tasks' = tasks \cup
                 {Task("addMediaFile", "save", projectId, newItem, <<>>, 0)}
            /\ lastOp' = Op("addMediaFile", nextId, {})
            /\ UNCHANGED <<folders, currentFolderId, isLoading, storage, loadCount,
                           revoked, revokedTwice, splitVars, sideVars>>

AddMediaFile == AddMediaFileWith(ProjectIds, UploadTypes, {NullId} \cup KnownIds, MaxIds)

StoredIds == {r.item.id : r \in storage}

RemoveMediaFileWith(projectIds) ==
    \E projectId \in projectIds, id \in IdsOf(mediaFiles) \cup StoredIds :
        /\ Revoke(UrlsOfRemoved(mediaFiles, id))
        /\ mediaFiles' = SelectSeq(mediaFiles, LAMBDA media : media.id # id)
        \* line 329: deleteMediaFile is called and awaited
        /\ tasks' = tasks \cup
             {Task("deleteMediaFile", "await", projectId, [NoItem EXCEPT !.id = id], <<>>, 0)}
        /\ lastOp' = Op("removeMediaFile", id, {})
        /\ UNCHANGED <<folders, currentFolderId, isLoading, nextId, storage, loadCount,
                       splitVars, sideVars>>

RemoveMediaFile == RemoveMediaFileWith(ProjectIds)

LoadProjectMediaStartWith(projectIds) ==
    \E projectId \in projectIds :
        /\ loadCount < MaxLoads
        /\ loadCount' = loadCount + 1
        /\ isLoading' = TRUE
        /\ Revoke(AllUrls(mediaFiles))
        \* line 346: loadAllMediaFiles is called and awaited
        /\ tasks' = tasks \cup
             {Task("loadProjectMedia", "await", projectId, NoItem, <<>>, loadCount + 1)}
        /\ lastOp' = Op("loadProjectMedia", NullId, {})
        /\ UNCHANGED <<mediaFiles, folders, currentFolderId, nextId, storage, splitVars, sideVars>>

LoadProjectMediaStart == LoadProjectMediaStartWith(ProjectIds)

ClearProjectMediaWith(projectIds) ==
    \E projectId \in projectIds :
        /\ Revoke(AllUrls(mediaFiles))
        /\ mediaFiles' = <<>>
        \* lines 379-382: one deleteMediaFile per item that was in the state
        /\ tasks' = tasks \cup
             {Task("deleteMediaFile", "await", projectId, [NoItem EXCEPT !.id = id], <<>>, 0) :
                 id \in IdsOf(mediaFiles)}
        /\ lastOp' = Op("clearProjectMedia", NullId, IdsOf(mediaFiles))
        /\ UNCHANGED <<folders, currentFolderId, isLoading, nextId, storage, loadCount,
                       splitVars, sideVars>>

ClearProjectMedia == ClearProjectMediaWith(ProjectIds)

ClearAllMedia ==
    /\ Revoke(AllUrls(mediaFiles))
    /\ mediaFiles' = <<>>
    /\ folders' = <<>>
    /\ currentFolderId' = NullId
    /\ lastOp' = Op("clearAllMedia", NullId, IdsOf(mediaFiles))
    /\ UNCHANGED <<isLoading, nextId, tasks, storage, loadCount, splitVars, sideVars>>

moveToFolder(files, mediaId, folderId) ==
    MapSeq(files, LAMBDA f : IF f.id = mediaId THEN [f EXCEPT !.folderId = folderId] ELSE f)

MoveToFolderWith(folderIds) ==
    \E mediaId \in IdsOf(mediaFiles), folderId \in folderIds :
        /\ mediaFiles' = moveToFolder(mediaFiles, mediaId, folderId)
        /\ lastOp' = Op("moveToFolder", mediaId, {})
        /\ UNCHANGED <<folders, currentFolderId, isLoading, nextId, tasks, storage,
                       loadCount, revoked, revokedTwice, splitVars, sideVars>>

MoveToFolder == MoveToFolderWith({NullId} \cup KnownIds)

\* what a caller of addMediaFromUrl passes: type, url and thumbnailUrl
UrlOptions ==
    {[type |-> "image", url |-> "http", thumb |-> "none"],
     [type |-> "image", url |-> "data:", thumb |-> "none"],
     [type |-> "video", url |-> "http", thumb |-> "data:"],
     [type |-> "audio", url |-> "http", thumb |-> "none"]}

\* line 498: the test that starts the background save
SavesInBackground(item) ==
    /\ item.type \in {"image", "video"}
    /\ HasUrl(item.url)
    /\ (StartsWithHttp(item.url) \/ StartsWithData(item.url))

AddMediaFromUrlWith(options, folderIds, projectIds, limit) ==
    \E o \in options, folderId \in folderIds, projectId \in projectIds :
        LET newItem == Item(nextId, o.type,
                            [scheme |-> o.url, ref |-> nextId, gen |-> 0],
                            IF o.thumb = "none" THEN NoUrl ELSE Data(nextId),
                            folderId, projectId, FALSE)
        IN  /\ nextId <= MaxIds
            /\ Len(mediaFiles) < limit
            /\ nextId' = nextId + 1
            /\ mediaFiles' = Append(mediaFiles, newItem)
            /\ tasks' = IF SavesInBackground(newItem)
                        THEN tasks \cup {Task("addMediaFromUrl", "url", NoProject, newItem, <<>>, 0)}
                        ELSE tasks
            /\ lastOp' = Op("addMediaFromUrl", nextId, {})
            /\ UNCHANGED <<folders, currentFolderId, isLoading, storage, loadCount,
                           revoked, revokedTwice, splitVars, sideVars>>

AddMediaFromUrl ==
    AddMediaFromUrlWith(UrlOptions, {NullId} \cup KnownIds, {NoProject} \cup ProjectIds, MaxIds)

----------------------------------------------------------------------------
(* Media items: the asynchronous continuations *)

\* storageService (lib/storage/storage-service, not in src): one record per
\* project id and item id; a save or a delete is one atomic write that lands
\* when its call settles, a load is one atomic read
StoragePut(st, projectId, item) ==
    {r \in st : ~(r.projectId = projectId /\ r.item.id = item.id)} \cup
    {[projectId |-> projectId, item |-> item]}

StorageDelete(st, projectId, id) ==
    {r \in st : ~(r.projectId = projectId /\ r.item.id = id)}

RECURSIVE SortedById(_)
SortedById(items) ==
    IF items = {} THEN <<>>
    ELSE LET m == CHOOSE x \in items : \A y \in items : x.id <= y.id
         IN <<m>> \o SortedById(items \ {m})

\* the items loadAllMediaFiles yields for a project: the stored records, each
\* with an object URL made for this load (gen) in place of the saved one
StorageLoad(st, projectId, gen) ==
    SortedById({[r.item EXCEPT !.url = Blob(r.item.id, gen)] :
                    r \in {q \in st : q.projectId = projectId}})

\* lines 264, 290: the tests that start the local save and the thumbnail save
SavesUploadLocally(item) == item.file /\ item.type \in {"image", "video"}
SavesUploadThumb(item) ==
    item.type = "video" /\ HasUrl(item.thumbnailUrl) /\ StartsWithData(item.thumbnailUrl)
\* line 517
SavesUrlThumb(item) == HasUrl(item.thumbnailUrl) /\ StartsWithData(item.thumbnailUrl)

\* a plausible slip: a rejected save rolls the insert back
afterSaveRollback(files, item, saved) ==
    IF saved THEN files ELSE SelectSeq(files, LAMBDA f : f.id # item.id)

\* lines 254-260: the catch block only logs
afterSave(files, item, saved) == files

\* the await of saveMediaFile (line 256) settles; the rest of addMediaFile runs
\* (isElectron() answers either way)
AddMediaFileSaved ==
    \E t \in tasks, saved \in BOOLEAN, electron \in BOOLEAN :
        /\ t.kind = "addMediaFile" /\ t.stage = "save"
        /\ storage' = IF saved THEN StoragePut(storage, t.projectId, t.item) ELSE storage
        /\ tasks' = (tasks \ {t}) \cup
                    IF electron /\ SavesUploadLocally(t.item)
                    THEN {[t EXCEPT !.stage = "url"]} ELSE {}
        /\ lastOp' = Op("addMediaFile.saved", t.item.id, IF saved THEN {t.item.id} ELSE {})
        /\ mediaFiles' = afterSave(mediaFiles, t.item, saved)
        /\ UNCHANGED <<folders, currentFolderId, isLoading, nextId,
                       loadCount, revoked, revokedTwice, splitVars, sideVars>>

\* a plausible slip: the update writes the captured item back when it is gone
withUrlUpsert(files, item, localPath) ==
    IF item.id \in IdsOf(files)
    THEN MapSeq(files, LAMBDA f : IF f.id = item.id THEN [f EXCEPT !.url = localPath] ELSE f)
    ELSE Append(files, [item EXCEPT !.url = localPath])

\* lines 281-285, 508-512, 692-696: the update of url by id
withUrl(files, item, localPath) ==
    MapSeq(files, LAMBDA f : IF f.id = item.id THEN [f EXCEPT !.url = localPath] ELSE f)

\* lines 294-298, 521-525, 706-710: the update of thumbnailUrl by id
withThumbnailUrl(files, item, localPath) ==
    MapSeq(files, LAMBDA f :
        IF f.id = item.id THEN [f EXCEPT !.thumbnailUrl = localPath] ELSE f)

\* saveImageToLocal settles: a new local-image:// path, the reference it was
\* given, or an exception
SaveOutcomes == {"local", "same", "throws"}

\* one await of saveImageToLocal in a background save settles (task t, parked
\* at stage url or thumb); wantsThumb is the test before the thumbnail save
BackgroundSaveStep(t, outcome, wantsThumb, name) ==
    /\ mediaFiles' =
         IF outcome # "local" THEN mediaFiles
         ELSE IF t.stage = "url" THEN withUrl(mediaFiles, t.item, Local(t.item.id))
         ELSE withThumbnailUrl(mediaFiles, t.item, Local(t.item.id))
    /\ tasks' = (tasks \ {t}) \cup
                IF t.stage = "url" /\ outcome # "throws" /\ wantsThumb
                THEN {[t EXCEPT !.stage = "thumb"]} ELSE {}
    /\ lastOp' = Op(name, t.item.id, IF outcome = "local" THEN {t.item.id} ELSE {})
    /\ UNCHANGED <<folders, currentFolderId, isLoading, nextId, storage, loadCount,
                   revoked, revokedTwice, splitVars, sideVars>>

\* lines 265-304 (the FileReader failing counts as the save throwing)
UploadLocalSaveStep ==
    \E t \in tasks, outcome \in SaveOutcomes :
        /\ t.kind = "addMediaFile" /\ t.stage \in {"url", "thumb"}
        /\ BackgroundSaveStep(t, outcome, SavesUploadThumb(t.item), "addMediaFile.localSave")

\* lines 499-532
UrlSaveStep ==
    \E t \in tasks, outcome \in SaveOutcomes :
        /\ t.kind = "addMediaFromUrl"
        /\ BackgroundSaveStep(t, outcome, SavesUrlThumb(t.item), "addMediaFromUrl.localSave")

\* the await of deleteMediaFile (lines 329, 381) settles
DeleteMediaFileSettled ==
    \E t \in tasks, deleted \in BOOLEAN :
        /\ t.kind = "deleteMediaFile"
        /\ storage' = IF deleted THEN StorageDelete(storage, t.projectId, t.item.id)
                      ELSE storage
        /\ tasks' = tasks \ {t}
        /\ lastOp' = Op("deleteMediaFile.settled", t.item.id,
                        IF deleted THEN {t.item.id} ELSE {})
        /\ UNCHANGED <<mediaFiles, folders, currentFolderId, isLoading, nextId,
                       loadCount, revoked, revokedTwice, splitVars, sideVars>>

\* a plausible slip: the catch block resets the item list
onLoadRejectedCleared(files) == <<>>

\* lines 354-355: the catch block only logs
onLoadRejected(files) == files

\* a plausible slip: isLoading is reset at the end of the try block only
LoadingAfterLoadedOnly(loaded) == ~loaded

\* lines 356-358: finally { set({ isLoading: false }) }
LoadingAfter(loaded) == FALSE

\* the await of loadAllMediaFiles (line 346) settles: lines 348-358
LoadProjectMediaSettled ==
    \E t \in tasks, loaded \in BOOLEAN :
        /\ t.kind = "loadProjectMedia"
        /\ mediaFiles' =
             IF loaded
             THEN MapSeq(StorageLoad(storage, t.projectId, t.n),
                         LAMBDA item : [item EXCEPT !.projectId = t.projectId])
             ELSE onLoadRejected(mediaFiles)
        /\ isLoading' = LoadingAfter(loaded)
        /\ tasks' = tasks \ {t}
        /\ lastOp' = Op("loadProjectMedia.settled", t.n, IF loaded THEN {t.n} ELSE {})
        /\ UNCHANGED <<folders, currentFolderId, nextId, storage, loadCount,
                       revoked, revokedTwice, splitVars, sideVars>>

----------------------------------------------------------------------------
(* Rehydration and the migration of data: URLs (media-store.ts:657-719) *)

\* what the persisted state can hold at process start: nothing, or data of
\* earlier versions (a root folder with the legacy label, items persisted with
\* their data: URLs); the ids are those of an earlier session
LegacyFolder == Folder(1, LegacyName, NullId, NoProject, FALSE, FALSE, NoCategory)

LegacyCatalogs ==
    {EmptyState,
     [folders |-> <<LegacyFolder>>, mediaFiles |-> <<>>],
     [folders |-> <<LegacyFolder>>,
      mediaFiles |-> <<Item(2, "audio", Local(2), NoUrl, 1, NoProject, FALSE)>>]}

InlineCatalogs ==
    {[folders |-> <<>>,
      mediaFiles |-> <<Item(1, "video", Data(1), Data(1), NullId, NoProject, FALSE)>>],
     [folders |-> <<>>,
      mediaFiles |-> <<Item(1, "image", Data(1), NoUrl, NullId, NoProject, FALSE),
                       Item(2, "video", Local(2), Data(2), NullId, "p1", FALSE)>>]}

PersistedCatalogs == LegacyCatalogs \cup InlineCatalogs

\* lines 676-678
NeedsMigration(f) ==
    \/ HasUrl(f.url) /\ StartsWithData(f.url)
    \/ HasUrl(f.thumbnailUrl) /\ StartsWithData(f.thumbnailUrl)

\* the first await the scan reaches for a file (lines 686, 701)
FirstStage(f) == IF HasUrl(f.url) /\ StartsWithData(f.url) THEN "url" ELSE "thumb"

MigrationTasks(files) ==
    LET filesToMigrate == SelectSeq(files, NeedsMigration) IN
    IF filesToMigrate = <<>> THEN {}
    ELSE {Task("migrateMediaDataUrls", FirstStage(Head(filesToMigrate)), NoProject,
               Head(filesToMigrate), Tail(filesToMigrate), 0)}

\* process start: the persisted catalog replaces folders and mediaFiles
\* (merge, line 657), then onRehydrateStorage runs initSystemFolders and
\* starts the migration scan
RehydrateWith(catalogs, maxIds) ==
    \E persisted \in catalogs :
        LET used == Len(persisted.folders) + Len(persisted.mediaFiles)
            created == Len(NewSystemFolders(persisted.folders, used + 1, 1))
        IN  /\ lastOp.op = "init"
            /\ used + created <= maxIds
            /\ folders' = initSystemFolders(persisted.folders, used + 1)
            /\ mediaFiles' = persisted.mediaFiles
            /\ nextId' = used + created + 1
            /\ tasks' = MigrationTasks(persisted.mediaFiles)
            /\ lastOp' = Op("rehydrate", NullId, IdsOf(persisted.folders))
            /\ UNCHANGED <<currentFolderId, isLoading, storage, loadCount,
                           revoked, revokedTwice, splitVars, sideVars>>

RehydrateFrom(catalogs) == RehydrateWith(catalogs, MaxIds)

Rehydrate == RehydrateFrom(PersistedCatalogs)

\* a plausible slip: an exception of the save ends the scan
scanAfterAbort(t, outcome) ==
    IF outcome = "throws" THEN {}
    ELSE IF t.stage = "url" /\
            HasUrl(t.item.thumbnailUrl) /\ StartsWithData(t.item.thumbnailUrl)
         THEN {[t EXCEPT !.stage = "thumb"]}
    ELSE IF t.queue = <<>> THEN {}
    ELSE {[t EXCEPT !.stage = FirstStage(Head(t.queue)),
                    !.item = Head(t.queue), !.queue = Tail(t.queue)]}

\* where the scan stands after an await of saveImageToLocal has settled: at
\* the thumbnail of the same file (line 701), or, past the end of the try
\* block or its catch (lines 713-715), at the next file of the loop, if any
scanAfter(t, outcome) ==
    IF t.stage = "url" /\ outcome # "throws" /\
       HasUrl(t.item.thumbnailUrl) /\ StartsWithData(t.item.thumbnailUrl)
    THEN {[t EXCEPT !.stage = "thumb"]}
    ELSE IF t.queue = <<>> THEN {}
    ELSE {[t EXCEPT !.stage = FirstStage(Head(t.queue)),
                    !.item = Head(t.queue), !.queue = Tail(t.queue)]}

\* one await of saveImageToLocal in the scan settles (lines 683-716): the
\* task holds the file being migrated (item) and the files still to do (queue)
MigrationStep ==
    \E t \in tasks, outcome \in SaveOutcomes :
        /\ t.kind = "migrateMediaDataUrls"
        /\ mediaFiles' =
             IF outcome # "local" THEN mediaFiles
             ELSE IF t.stage = "url" THEN withUrl(mediaFiles, t.item, Local(t.item.id))
             ELSE withThumbnailUrl(mediaFiles, t.item, Local(t.item.id))
        /\ tasks' = (tasks \ {t}) \cup scanAfter(t, outcome)
        /\ lastOp' = Op(IF outcome = "throws" THEN "migrateMediaDataUrls.catch"
                        ELSE "migrateMediaDataUrls.localSave", t.item.id,
                        IF outcome = "local" THEN {t.item.id} ELSE {})
        /\ UNCHANGED <<folders, currentFolderId, isLoading, nextId, storage, loadCount,
                       revoked, revokedTwice, splitVars, sideVars>>

----------------------------------------------------------------------------
(* The store as a state machine *)

Init == StoreIdle /\ SplitIdle /\ SideIdle

Next ==
    \/ AddMediaFile
    \/ AddMediaFileSaved
    \/ UploadLocalSaveStep
    \/ RemoveMediaFile
    \/ DeleteMediaFileSettled
    \/ LoadProjectMediaStart
    \/ LoadProjectMediaSettled
    \/ ClearProjectMedia
    \/ ClearAllMedia
    \/ AddFolder
    \/ RenameFolder
    \/ DeleteFolder
    \/ SetCurrentFolder
    \/ MoveToFolder
    \/ AddMediaFromUrl
    \/ UrlSaveStep
    \/ GetOrCreateCategoryFolder
    \/ InitSystemFolders
    \/ AssignProjectToUnscoped
    \/ Rehydrate
    \/ MigrationStep

Spec == Init /\ [][Next]_vars

----------------------------------------------------------------------------
(* The folder tree: the operations that write parentId, folderId and        *)
(* currentFolderId, with one folder name, one category and no project, and  *)
(* items added by URL with options that start no background save.           *)

PlainUrlOptions == {[type |-> "audio", url |-> "http", thumb |-> "none"]}

\* ids a caller can hold that were made for folders (present or deleted)
FolderIdsHeld == KnownIds \ IdsOf(mediaFiles)

TreeAddFolder ==
    AddFolderWith({"Clips"}, {NullId} \cup IdsOf(folders), {NoProject}, MaxTreeFolders)
TreeMoveToFolder == MoveToFolderWith({NullId} \cup FolderIdsHeld)
TreeAddMediaFromUrl ==
    AddMediaFromUrlWith(PlainUrlOptions, {NullId} \cup IdsOf(folders), {NoProject},
                        MaxTreeItems)
TreeGetOrCreateCategoryFolder == GetOrCreateCategoryFolderWith({"upload"})

TreeNext ==
    \/ TreeAddFolder
    \/ DeleteFolder
    \/ SetCurrentFolder
    \/ TreeMoveToFolder
    \/ TreeAddMediaFromUrl
    \/ TreeGetOrCreateCategoryFolder
    \/ ClearAllMedia

TreeSpec == Init /\ [][TreeNext]_vars

----------------------------------------------------------------------------
(* System folders and scoping: the operations that write the folders' name, *)
(* isSystem, category and projectId and the items' projectId, started from  *)
(* the empty catalog or from a persisted catalog without data: URLs.        *)

\* ids of the folders that are no system folders
PlainFolderIds == {folders[i].id : i \in {j \in 1..Len(folders) : ~folders[j].isSystem}}

SystemAddFolder ==
    AddFolderWith(FolderNames, {NullId} \cup PlainFolderIds, {NoProject, "p1"},
                  MaxScopedFolders)
SystemRenameFolder == RenameFolderWith({LegacyName})
SystemAddMediaFromUrl ==
    AddMediaFromUrlWith(PlainUrlOptions, {NullId} \cup PlainFolderIds, {NoProject, "p1"},
                        MaxScopedItems)
SystemAssignProjectToUnscoped == AssignProjectToUnscopedWith({"p1"})
SystemRehydrate == RehydrateFrom(LegacyCatalogs)

SystemNext ==
    \/ SystemAddFolder
    \/ SystemRenameFolder
    \/ DeleteFolder
    \/ SystemAddMediaFromUrl
    \/ GetOrCreateCategoryFolder
    \/ InitSystemFolders
    \/ SystemAssignProjectToUnscoped
    \/ ClearAllMedia
    \/ SystemRehydrate

SystemSpec == Init /\ [][SystemNext]_vars

----------------------------------------------------------------------------
(* Media items and their continuations: the operations that add, remove,    *)
(* load and clear media items, the background saves and the migration scan, *)
(* with items at the root (folderId null).                                  *)

BackgroundUrlOptions == {o \in UrlOptions : o.type # "audio"}

MediaProjectIds == {"p1"}

MediaAddMediaFile ==
    /\ nextId <= MaxMediaIds
    /\ AddMediaFileWith(MediaProjectIds, UploadTypes, {NullId}, MaxMediaItems)
MediaRemoveMediaFile == RemoveMediaFileWith(MediaProjectIds)
MediaLoadProjectMediaStart ==
    /\ loadCount < MaxMediaLoads
    /\ LoadProjectMediaStartWith(MediaProjectIds)
MediaClearProjectMedia == ClearProjectMediaWith(MediaProjectIds)
MediaAddMediaFromUrl ==
    /\ nextId <= MaxMediaIds
    /\ AddMediaFromUrlWith(BackgroundUrlOptions, {NullId}, {NoProject}, MaxMediaItems)
MediaRehydrate == RehydrateFrom(InlineCatalogs)

MediaNext ==
    \/ MediaAddMediaFile
    \/ AddMediaFileSaved
    \/ UploadLocalSaveStep
    \/ MediaRemoveMediaFile
    \/ DeleteMediaFileSettled
    \/ MediaLoadProjectMediaStart
    \/ LoadProjectMediaSettled
    \/ MediaClearProjectMedia
    \/ ClearAllMedia
    \/ MediaAddMediaFromUrl
    \/ UrlSaveStep
    \/ MediaRehydrate
    \/ MigrationStep

MediaSpec == Init /\ [][MediaNext]_vars

----------------------------------------------------------------------------
(* Claims about the split / merge partitioner (checked under SplitSpec) *)

Merged == phase \in {"merged", "resplit", "remerged"}

\* what the round trip keeps of a catalog, stated on the entities themselves
KeptFolder(f) ==
    f.isSystem \/ f.projectId = pid \/ (~Truthy(f.projectId) /\ ~f.isAutoCreated)
KeptItem(f) == f.projectId = pid \/ ~Truthy(f.projectId)

\* s lists shared entities before project entities, each group in the order
\* of the catalog (whose ids ascend)
SharedThenProject(s, Shared(_)) ==
    \A i, j \in 1..Len(s) : i < j =>
        \/ Shared(s[i]) /\ ~Shared(s[j])
        \/ (Shared(s[i]) <=> Shared(s[j])) /\ s[i].id < s[j].id

\* C1 as stated: merge(split(C,p)) holds exactly the folders and items of C,
\* and splitting and merging the result again returns it unchanged.
C1_RoundTripAll ==
    /\ Merged => /\ IdsOf(merged.folders) = IdsOf(catalog.folders)
                 /\ IdsOf(merged.mediaFiles) = IdsOf(catalog.mediaFiles)
    /\ phase = "remerged" => merged2 = merged

\* C1 (amended): merge(split(C,p)) holds exactly the folders of C that are
\* system folders, carry projectId = p, or carry no projectId and are not
\* auto-created, and exactly the items of C that carry projectId = p or no
\* projectId, each entity unchanged; for a non-empty p every entity appears
\* once, shared entities before project entities; applying split and merge
\* again keeps the id sets for every p and returns the same catalog for a
\* non-empty p.
C1_RoundTripKept ==
    /\ Merged =>
        /\ SeqToSet(merged.folders) = {f \in SeqToSet(catalog.folders) : KeptFolder(f)}
        /\ SeqToSet(merged.mediaFiles) = {f \in SeqToSet(catalog.mediaFiles) : KeptItem(f)}
        /\ pid # "" => /\ SharedThenProject(merged.folders, InSharedFolders)
                       /\ SharedThenProject(merged.mediaFiles, InSharedFiles)
    /\ phase = "remerged" =>
        /\ IdsOf(merged2.folders) = IdsOf(merged.folders)
        /\ IdsOf(merged2.mediaFiles) = IdsOf(merged.mediaFiles)
        /\ pid # "" => merged2 = merged

\* a round trip that reorders the catalog (project folder first, shared folder
\* second) and carries an item, run to its second merge
C1_Witness ==
    /\ phase = "remerged"
    /\ pid = "p1"
    /\ Len(catalog.folders) = 2
    /\ InProjectFolders(catalog.folders[1], pid)
    /\ InSharedFolders(catalog.folders[2])
    /\ Len(merged.folders) = 2
    /\ merged.folders[1] = catalog.folders[2]
    /\ Len(merged2.mediaFiles) = 1

\* C2: the two partitions splitMediaData returns share no folder id and no
\* media item id, for every project id (the empty string included).
C2_Disjoint ==
    phase # "start" =>
        /\ IdsOf(parts.projectData.folders) \cap IdsOf(parts.sharedData.folders) = {}
        /\ IdsOf(parts.projectData.mediaFiles) \cap IdsOf(parts.sharedData.mediaFiles) = {}


----------------------------------------------------------------------------
(* Claims about the folder tree (checked under TreeSpec) *)

\* the folder id lies under F: following parentId from it reaches F
RECURSIVE IsUnder(_, _, _, _)
IsUnder(fs, id, F, n) ==
    \/ id = F
    \/ /\ n > 0
       /\ \E i \in 1..Len(fs) :
            fs[i].id = id /\ fs[i].parentId # NullId /\ IsUnder(fs, fs[i].parentId, F, n - 1)

Subtree(fs, F) == {id \in IdsOf(fs) : IsUnder(fs, id, F, Len(fs))}

\* C3: deleteFolder(F) on a non-system folder F removes from folders exactly
\* F and the folders transitively parented under F, sets folderId to null on
\* every item whose folderId was in that set, and leaves every other item
\* unchanged; no item is removed.
C3_DeleteFolderCascade ==
    [][(/\ lastOp'.op = "deleteFolder"
        /\ \E i \in 1..Len(folders) : folders[i].id = lastOp'.id /\ ~folders[i].isSystem)
       => LET removed == Subtree(folders, lastOp'.id) IN
          /\ folders' = SelectSeq(folders, LAMBDA f : f.id \notin removed)
          /\ Len(mediaFiles') = Len(mediaFiles)
          /\ \A i \in 1..Len(mediaFiles) :
               mediaFiles'[i] = IF mediaFiles[i].folderId \in removed
                                THEN [mediaFiles[i] EXCEPT !.folderId = NullId]
                                ELSE mediaFiles[i]]_vars

\* deleteFolder has removed a folder, its child and its grandchild and has
\* moved an item of the subtree to the root
C3_Witness ==
    /\ lastOp.op = "deleteFolder"
    /\ Cardinality(lastOp.aux \ IdsOf(mediaFiles)) = 3
    /\ \E i \in 1..Len(mediaFiles) :
         mediaFiles[i].id \in lastOp.aux /\ mediaFiles[i].folderId = NullId

----------------------------------------------------------------------------
(* Claims about system folders (checked under SystemSpec) *)

SystemFoldersOf(fs, category) == {i \in 1..Len(fs) : IsSystemOf(fs[i], category)}

\* C4: when the catalog holds a non-system root folder with the legacy name
\* and no system ai-image folder, initSystemFolders makes that folder (same
\* id) the system ai-image folder, the items in it still point to it, the
\* catalog then holds exactly one system ai-image folder, and a second
\* initSystemFolders adds no other.
C4_LegacyMigration ==
    [][(/\ lastOp'.op = "initSystemFolders"
        /\ \E i \in 1..Len(folders) : IsLegacyAiFolder(folders[i])
        /\ ~HasSystemFolder(folders, "ai-image"))
       => /\ \E i \in 1..Len(folders), j \in 1..Len(folders') :
               /\ IsLegacyAiFolder(folders[i])
               /\ folders'[j].id = folders[i].id
               /\ IsSystemOf(folders'[j], "ai-image")
               /\ \A k \in 1..Len(mediaFiles) :
                    mediaFiles[k].folderId = folders[i].id =>
                        k <= Len(mediaFiles') /\ mediaFiles'[k] = mediaFiles[k]
          /\ Cardinality(SystemFoldersOf(folders', "ai-image")) = 1
          /\ Cardinality(SystemFoldersOf(initSystemFolders(folders', nextId'), "ai-image")) = 1
    ]_vars

\* C5: after initSystemFolders there is exactly one system folder for each
\* of the fixed categories, and applying initSystemFolders again, with no
\* other mutation in between, leaves the state as it is.
C5_InitIdempotent ==
    [][/\ lastOp'.op = "initSystemFolders" =>
            /\ \A c \in Categories : Cardinality(SystemFoldersOf(folders', c)) = 1
            /\ initSystemFolders(folders', nextId') = folders'
            /\ NewSystemFolders(folders', nextId', 1) = <<>>
       /\ (lastOp.op = "initSystemFolders" /\ lastOp'.op = "initSystemFolders") =>
            /\ folders' = folders
            /\ mediaFiles' = mediaFiles
            /\ currentFolderId' = currentFolderId
            /\ isLoading' = isLoading
            /\ nextId' = nextId
    ]_vars

\* initSystemFolders has run on a catalog that held a folder made by addFolder
\* and one system folder, and has created the two missing system folders
C5_Witness ==
    /\ lastOp.op = "initSystemFolders"
    /\ Cardinality(lastOp.aux) = 2
    /\ \E i \in 1..Len(folders) : ~folders[i].isSystem
    /\ Len(folders) = 4

\* C10: no two system folders have the same category, and no system folder
\* carries a projectId.
C10_SystemFoldersUnique ==
    /\ \A i, j \in 1..Len(folders) :
         (i # j /\ folders[i].isSystem /\ folders[j].isSystem) =>
             folders[i].category # folders[j].category
    /\ \A i \in 1..Len(folders) : folders[i].isSystem => folders[i].projectId = NoProject

\* assignProjectToUnscoped has stamped a folder while the three system folders
\* exist
C10_Witness ==
    /\ lastOp.op = "assignProjectToUnscoped"
    /\ \A c \in Categories : HasSystemFolder(folders, c)
    /\ \E i \in 1..Len(folders) :
         ~folders[i].isSystem /\ folders[i].projectId = "p1" /\ ~folders[i].isAutoCreated

----------------------------------------------------------------------------
(* Claims about the items' folder references (checked under TreeSpec) *)

\* C9: every media item's folderId is null or the id of a folder currently
\* present in folders.
C9_FolderIdsValid ==
    \A i \in 1..Len(mediaFiles) :
        mediaFiles[i].folderId = NullId \/ mediaFiles[i].folderId \in IdsOf(folders)

----------------------------------------------------------------------------
(* Claims about media items and their continuations (checked under MediaSpec) *)

MigrationSaveOps == {"migrateMediaDataUrls.localSave", "migrateMediaDataUrls.catch"}

LocalSaveOps == {"addMediaFile.localSave", "addMediaFromUrl.localSave"} \cup MigrationSaveOps

\* C6: when a background save (of the url or of the thumbnail) started by
\* addMediaFromUrl, addMediaFile or the migration scan completes, an item that
\* is absent from mediaFiles stays absent: the step adds no item and removes
\* none, whatever happened since the task started.
C6_NoResurrection ==
    [][lastOp'.op \in LocalSaveOps =>
          /\ Len(mediaFiles') = Len(mediaFiles)
          /\ \A i \in 1..Len(mediaFiles) : mediaFiles'[i].id = mediaFiles[i].id
          /\ lastOp'.id \notin IdsOf(mediaFiles) => mediaFiles' = mediaFiles]_vars

\* the background save of an item added by addMediaFromUrl has produced a
\* local path after the item left mediaFiles, while another item is held
C6_Witness ==
    /\ lastOp.op = "addMediaFromUrl.localSave"
    /\ lastOp.aux = {lastOp.id}
    /\ lastOp.id \notin IdsOf(mediaFiles)
    /\ mediaFiles # <<>>

\* the object URLs a step drops from the items of mediaFiles
Dropped(before, after) == BlobsOf(before) \ BlobsOf(after)

\* C7: no object URL is released twice, no item of mediaFiles holds an object
\* URL that has been released, and every object URL that leaves mediaFiles
\* (its item removed, the item set replaced, or its url replaced) has been
\* released by then.
C7_ReleasedExactlyOnce ==
    /\ [](revokedTwice = {} /\ BlobsOf(mediaFiles) \cap revoked = {})
    /\ [][Dropped(mediaFiles, mediaFiles') \subseteq revoked']_vars

SameId(a, b) == a.id = b.id /\ a.id # NullId

\* C8: when the save addMediaFile started and the delete removeMediaFile
\* started for the same item and project have both completed, one right after
\* the other in either order, storage holds no record of the item.
C8_RemoveWinsOverSave ==
    [][(/\ SameId(lastOp, lastOp')
        /\ lastOp.aux = {lastOp.id} /\ lastOp'.aux = {lastOp.id}
        /\ {lastOp.op, lastOp'.op} = {"addMediaFile.saved", "deleteMediaFile.settled"})
       => lastOp.id \notin {r.item.id : r \in storage'}]_vars

----------------------------------------------------------------------------
(* Claims about the lifetime of system folders (checked under SystemSpec) *)

\* every system folder of fs is a system folder of gs, with its id and category
SystemFoldersKept(fs, gs) ==
    \A i \in 1..Len(fs) : fs[i].isSystem =>
        \E j \in 1..Len(gs) :
            /\ gs[j].id = fs[i].id
            /\ gs[j].isSystem
            /\ gs[j].category = fs[i].category

\* C11 as stated: no operation, clearAllMedia included, destroys a system
\* folder: a system folder of the catalog is a system folder after every step.
C11_SystemFoldersNeverDestroyed ==
    [][SystemFoldersKept(folders, folders')]_vars

\* C11 (amended): every operation other than clearAllMedia keeps every system
\* folder in folders with isSystem = true and its category; clearAllMedia
\* resets folders to empty, system folders included.
C11_SystemFoldersKeptButByClearAll ==
    [][/\ lastOp'.op # "clearAllMedia" => SystemFoldersKept(folders, folders')
       /\ lastOp'.op = "clearAllMedia" => folders' = <<>>]_vars

\* deleteFolder has been called on a system folder that stands next to
\* another folder, and the folder is still there
C11_Witness ==
    /\ lastOp.op = "deleteFolder"
    /\ IsSystemTarget(folders, lastOp.id)
    /\ \E i \in 1..Len(folders) : ~folders[i].isSystem

----------------------------------------------------------------------------
(* Claims about deleteFolder on a system folder (checked under TreeSpec) *)

\* C12: deleteFolder(id) on a folder with isSystem = true changes nothing:
\* folders, mediaFiles, currentFolderId and isLoading stay as they are, also
\* when the folder has child folders or is the current folder.
C12_DeleteSystemFolderNoOp ==
    [][(/\ lastOp'.op = "deleteFolder"
        /\ \E i \in 1..Len(folders) : folders[i].id = lastOp'.id /\ folders[i].isSystem)
       => /\ folders' = folders
          /\ mediaFiles' = mediaFiles
          /\ currentFolderId' = currentFolderId
          /\ isLoading' = isLoading]_vars

\* deleteFolder has been called on a system folder that is the current folder
\* and holds a child folder and an item
C12_Witness ==
    /\ lastOp.op = "deleteFolder"
    /\ \E i \in 1..Len(folders) : folders[i].id = lastOp.id /\ folders[i].isSystem
    /\ currentFolderId = lastOp.id
    /\ \E i \in 1..Len(folders) : folders[i].parentId = lastOp.id
    /\ \E i \in 1..Len(mediaFiles) : mediaFiles[i].folderId = lastOp.id

----------------------------------------------------------------------------
(* Project scoping: assignProjectToUnscoped on catalogs whose folders and   *)
(* items carry no projectId, an empty one, or the id of a project, with the *)
(* id of that project or of another one as the argument.                    *)

ScopeProjectIds == {NoProject, "", "p1"}
ScopeAssignIds == {"p1", OtherProject}

ScopeAddFolder == AddFolderWith({"Clips"}, {NullId}, ScopeProjectIds, MaxScopedFolders)
ScopeAddMediaFromUrl ==
    AddMediaFromUrlWith(PlainUrlOptions, {NullId}, ScopeProjectIds, MaxTreeItems)
ScopeGetOrCreateCategoryFolder == GetOrCreateCategoryFolderWith({"upload"})
ScopeAssignProjectToUnscoped == AssignProjectToUnscopedWith(ScopeAssignIds)

ScopeNext ==
    \/ ScopeAddFolder
    \/ ScopeAddMediaFromUrl
    \/ ScopeGetOrCreateCategoryFolder
    \/ ScopeAssignProjectToUnscoped
    \/ DeleteFolder

ScopeSpec == Init /\ [][ScopeNext]_vars

\* C13: assignProjectToUnscoped(p) sets projectId = p on every media item and
\* every non-system folder that had no projectId (absent or empty), leaves
\* every item and folder that had a projectId and every system folder as it
\* was, adds and removes no entity and changes no other field.
C13_AssignFrame ==
    [][lastOp'.op = "assignProjectToUnscoped" =>
        \E p \in ScopeAssignIds :
            /\ Len(mediaFiles') = Len(mediaFiles)
            /\ \A i \in 1..Len(mediaFiles) :
                 mediaFiles'[i] = IF Truthy(mediaFiles[i].projectId) THEN mediaFiles[i]
                                  ELSE [mediaFiles[i] EXCEPT !.projectId = p]
            /\ Len(folders') = Len(folders)
            /\ \A i \in 1..Len(folders) :
                 folders'[i] = IF Truthy(folders[i].projectId) \/ folders[i].isSystem
                               THEN folders[i]
                               ELSE [folders[i] EXCEPT !.projectId = p]
            /\ currentFolderId' = currentFolderId
            /\ isLoading' = isLoading]_vars

\* assignProjectToUnscoped(p2) has stamped an item and a folder next to an
\* item of project p1 and a system folder
C13_Witness ==
    /\ lastOp.op = "assignProjectToUnscoped"
    /\ \E i \in 1..Len(mediaFiles) : mediaFiles[i].projectId = OtherProject
    /\ \E i \in 1..Len(mediaFiles) : mediaFiles[i].projectId = "p1"
    /\ \E i \in 1..Len(folders) : ~folders[i].isSystem /\ folders[i].projectId = OtherProject
    /\ \E i \in 1..Len(folders) : folders[i].isSystem /\ folders[i].projectId = NoProject

----------------------------------------------------------------------------
(* The keyed object store adapter (IndexedDBAdapter, media-store.ts:726-856) *)
(* An open request and the connection it yields carry the same number.  The  *)
(* continuations of an await on a settled promise run as microtasks, before  *)
(* any further event of the database, so a call that finds the setup done    *)
(* creates its transaction in the step that starts it, and the callers that  *)
(* wait for a setup resume in the step that settles it.                      *)

MaxCalls == 3            \* calls made on the adapter in one behaviour

AdapterOps == {"get", "set", "remove", "list", "clear"}
Keys == {"a", "b"}
NoKey == "<none>"

\* what a caller passes: get, set and remove take a key
CallArgs ==
    {[op |-> o, key |-> k] : o \in {"get", "set", "remove"}, k \in Keys} \cup
    {[op |-> o, key |-> NoKey] : o \in {"list", "clear"}}

\* a call on the adapter: where it stands (pc), the open request whose promise
\* getDB returned to it, why it rejected, and the keys it resolved with
Call(op, key, pc, open, error, result) ==
    [op |-> op, key |-> key, pc |-> pc, open |-> open, error |-> error, result |-> result]

\* line 740: if (this.dbPromise)
HasDbPromise(dbp) == dbp # 0

\* a plausible slip: onerror leaves the failed setup cached
AfterOpenErrorKept(dbp) == dbp

\* line 748: this.dbPromise = null
AfterOpenError(dbp) == 0

\* lines 767, 783, 799, 815, 831: db.transaction() throws InvalidStateError on
\* a connection whose close() has been called
TransactionThrows(n) == n \in closed

\* the call as it stands after `await this.getDB()` on a settled setup n
Resumed(c, n) ==
    IF opens[n] = "error" THEN [c EXCEPT !.pc = "rejected", !.error = "open-error"]
    ELSE IF TransactionThrows(n)
         THEN [c EXCEPT !.pc = "rejected", !.error = "InvalidStateError"]
         ELSE [c EXCEPT !.pc = "request"]

\* a call starts: getDB (lines 739-762) up to the first event it waits for
CallStart ==
    \E a \in CallArgs :
        LET c == Call(a.op, a.key, "awaitDB", dbPromise, "", {})
            id == Len(calls) + 1
        IN  /\ Len(calls) < MaxCalls
            /\ IF ~HasDbPromise(dbPromise)
               THEN /\ opens' = Append(opens, "pending")
                    /\ dbPromise' = Len(opens) + 1
                    /\ calls' = Append(calls, [c EXCEPT !.open = Len(opens) + 1])
                    /\ lastCall' = [step |-> "open", call |-> id, open |-> Len(opens) + 1]
               ELSE /\ calls' = Append(calls, IF opens[dbPromise] = "pending" THEN c
                                              ELSE Resumed(c, dbPromise))
                    /\ lastCall' = [step |-> "reuse", call |-> id, open |-> dbPromise]
                    /\ UNCHANGED <<opens, dbPromise>>
            /\ UNCHANGED <<closed, dbStore, deletion, persistVars, storeVars, splitVars>>

\* request.onsuccess of an open request (line 751): the waiting calls resume
OpenSuccess ==
    \E n \in 1..Len(opens) :
        /\ opens[n] = "pending"
        /\ opens' = [opens EXCEPT ![n] = "success"]
        /\ calls' = [i \in 1..Len(calls) |->
                        IF calls[i].pc = "awaitDB" /\ calls[i].open = n
                        THEN [calls[i] EXCEPT !.pc = "request"] ELSE calls[i]]
        /\ lastCall' = [step |-> "onsuccess", call |-> 0, open |-> n]
        /\ UNCHANGED <<dbPromise, closed, dbStore, deletion, persistVars, storeVars, splitVars>>

\* request.onerror of an open request (lines 747-750)
OpenError ==
    \E n \in 1..Len(opens) :
        /\ opens[n] = "pending"
        /\ opens' = [opens EXCEPT ![n] = "error"]
        /\ dbPromise' = AfterOpenError(dbPromise)
        /\ calls' = [i \in 1..Len(calls) |->
                        IF calls[i].pc = "awaitDB" /\ calls[i].open = n
                        THEN [calls[i] EXCEPT !.pc = "rejected", !.error = "open-error"]
                        ELSE calls[i]]
        /\ lastCall' = [step |-> "onerror", call |-> 0, open |-> n]
        /\ UNCHANGED <<closed, dbStore, deletion, persistVars, storeVars, splitVars>>

\* what the one request of a call does to the object store, and yields
StoreAfter(c) ==
    CASE c.op = "set" -> dbStore \cup {c.key}
      [] c.op = "remove" -> dbStore \ {c.key}
      [] c.op = "clear" -> {}
      [] OTHER -> dbStore

ResultOf(c) ==
    CASE c.op = "get" -> dbStore \cap {c.key}
      [] c.op = "list" -> dbStore
      [] OTHER -> {}

\* the request of a call settles (onsuccess or onerror), then finally db.close()
RequestSettles ==
    \E i \in 1..Len(calls), ok \in BOOLEAN :
        /\ calls[i].pc = "request"
        /\ dbStore' = IF ok THEN StoreAfter(calls[i]) ELSE dbStore
        /\ calls' = [calls EXCEPT ![i] =
                        IF ok THEN [@ EXCEPT !.pc = "resolved", !.result = ResultOf(calls[i])]
                        ELSE [@ EXCEPT !.pc = "rejected", !.error = "request-error"]]
        /\ closed' = closed \cup {calls[i].open}
        /\ lastCall' = [step |-> "settled", call |-> i, open |-> calls[i].open]
        /\ UNCHANGED <<dbPromise, opens, deletion, persistVars, storeVars, splitVars>>

AdapterNext == CallStart \/ OpenSuccess \/ OpenError \/ RequestSettles

AdapterSpec == Init /\ [][AdapterNext]_vars

----------------------------------------------------------------------------
(* Claims about the adapter (checked under AdapterSpec) *)

Pending == {n \in 1..Len(opens) : opens[n] = "pending"}
Waiting(n) == {i \in 1..Len(calls) : calls[i].pc = "awaitDB" /\ calls[i].open = n}

\* C14: every call opens at most one connection, runs its transaction on a
\* connection that is open (none finds the connection closed by another
\* call), and has released its connection when it completes.
C14_TransactionOnOpenConnection ==
    /\ Len(opens) <= Len(calls)
    /\ \A i \in 1..Len(calls) :
         /\ calls[i].error # "InvalidStateError"
         /\ (calls[i].pc = "resolved" \/ calls[i].error = "request-error")
               => calls[i].open \in closed

\* C15: while a setup is in progress a starting call issues no open request
\* and awaits that setup, so at most one open request is pending and every
\* waiting call waits for it; a setup that fails rejects every call that
\* waits for it and is not kept, and the next call issues a fresh request.
C15_SetupMemoized ==
    /\ [](/\ Cardinality(Pending) <= 1
          /\ \A n \in 1..Len(opens) : Waiting(n) # {} => (n \in Pending /\ dbPromise = n)
          /\ dbPromise # 0 => opens[dbPromise] # "error")
    /\ [][/\ (lastCall'.step \in {"open", "reuse"} /\ Pending # {}) =>
               /\ opens' = opens
               /\ calls'[Len(calls')].pc = "awaitDB"
               /\ calls'[Len(calls')].open \in Pending
          /\ (lastCall'.step \in {"open", "reuse"} /\ dbPromise = 0) =>
               /\ opens' = Append(opens, "pending")
               /\ calls'[Len(calls')].open = Len(opens')
          /\ lastCall'.step = "onerror" =>
               /\ dbPromise' = 0
               /\ \A i \in Waiting(lastCall'.open) :
                    calls'[i].pc = "rejected" /\ calls'[i].error = "open-error"
         ]_vars

\* two calls have been rejected by the one setup they waited for, and a third
\* call has issued a second open request
C15_Witness ==
    /\ Len(calls) = 3
    /\ calls[1].error = "open-error" /\ calls[2].error = "open-error"
    /\ calls[1].open = 1 /\ calls[2].open = 1
    /\ calls[3].open = 2
    /\ Len(opens) = 2

----------------------------------------------------------------------------
(* Loading: uploads and calls of loadProjectMedia that may overlap, for two *)
(* projects.  The promise of loadAllMediaFiles settles (resolves or         *)
(* rejects), so the continuation of every call is eventually run.           *)

LoadAddMediaFile ==
    /\ nextId <= MaxMediaIds
    /\ AddMediaFileWith({"p1"}, {"image"}, {NullId}, MaxMediaItems)

LoadNext ==
    \/ LoadAddMediaFile
    \/ AddMediaFileSaved
    \/ LoadProjectMediaStart
    \/ LoadProjectMediaSettled

LoadSpec == Init /\ [][LoadNext]_vars /\ WF_vars(LoadProjectMediaSettled)

LoadsInFlight == {t \in tasks : t.kind = "loadProjectMedia"}

\* C16: every call of loadProjectMedia reaches the step that sets isLoading
\* to false, whether the load resolves or rejects: the step that ends a call
\* leaves isLoading = false and, when the load rejected, mediaFiles as it
\* was; and whenever a call is in flight, isLoading = false comes to hold.
C16_LoadEndsNotLoading ==
    /\ [][lastOp'.op = "loadProjectMedia.settled" =>
            /\ isLoading' = FALSE
            /\ Cardinality(LoadsInFlight') = Cardinality(LoadsInFlight) - 1
            /\ lastOp'.aux = {} => mediaFiles' = mediaFiles]_vars
    /\ \A n \in 1..MaxLoads :
         ((\E t \in LoadsInFlight : t.n = n)
             ~> (isLoading = FALSE /\ ~\E t \in LoadsInFlight : t.n = n))

\* a load has rejected while mediaFiles held an item, and isLoading is false
C16_Witness ==
    /\ lastOp.op = "loadProjectMedia.settled"
    /\ lastOp.aux = {}
    /\ mediaFiles # <<>>
    /\ isLoading = FALSE

----------------------------------------------------------------------------
(* What the persist middleware writes (partialize, media-store.ts:630-656) *)
(* A url that is no string is a record with another scheme: an array holds  *)
(* its elements in ref, any other value has the scheme "object".            *)

ArrayOf(elems) == [scheme |-> "array", ref |-> elems, gen |-> 0]
OtherValue == [scheme |-> "object", ref |-> 0, gen |-> 0]

\* !f.ephemeral, on an item that may not have the field
IsEphemeral(f) == "ephemeral" \in DOMAIN f /\ f.ephemeral

\* lines 637-642
normalizeUrl(url) ==
    IF ~HasUrl(url) THEN NoUrl
    ELSE IF url.scheme = "array"
         THEN IF url.ref # <<>> /\ HasUrl(url.ref[1]) THEN url.ref[1] ELSE NoUrl
    ELSE IF url.scheme = "object" THEN NoUrl
    ELSE url

\* a plausible slip: only blob: URLs are held back
isTransientUrlBlobOnly(u) == ~HasUrl(u) \/ IsBlob(u)

\* line 647
isTransientUrl(u) == ~HasUrl(u) \/ IsBlob(u) \/ StartsWithData(u)

\* lines 649-654
partializeItem(f) ==
    LET normalizedUrl == normalizeUrl(f.url)
        normalizedThumbnail == normalizeUrl(f.thumbnailUrl)
    IN  [f EXCEPT !.file = FALSE,
                  !.url = IF isTransientUrl(normalizedUrl) THEN NoUrl ELSE normalizedUrl,
                  !.thumbnailUrl = IF isTransientUrl(normalizedThumbnail) THEN NoUrl
                                   ELSE normalizedThumbnail]

partialize(state) ==
    [folders |-> state.folders,
     mediaFiles |-> MapSeq(SelectSeq(state.mediaFiles, LAMBDA f : ~IsEphemeral(f)),
                           partializeItem)]

----------------------------------------------------------------------------
(* Process restart: the catalog as the persist middleware wrote it          *)
(* (partialize of the state) is read back and rehydrated (lines 657-666).   *)
(* The entities here carry no projectId, so the partitions of every project *)
(* hold them all.                                                           *)

Restart ==
    LET persisted == partialize([folders |-> folders, mediaFiles |-> mediaFiles])
        created == Len(NewSystemFolders(persisted.folders, nextId, 1))
    IN  /\ lastOp.op \notin {"init", "restart"}
        /\ nextId + created <= MaxIds + 1
        /\ folders' = initSystemFolders(persisted.folders, nextId)
        /\ mediaFiles' = persisted.mediaFiles
        /\ nextId' = nextId + created
        /\ currentFolderId' = NullId
        /\ isLoading' = FALSE
        \* the continuations of the old process are gone; the scan starts anew
        /\ tasks' = MigrationTasks(persisted.mediaFiles)
        /\ lastOp' = Op("restart", NullId, IdsOf(persisted.mediaFiles))
        /\ UNCHANGED <<storage, loadCount, revoked, revokedTwice, splitVars, sideVars>>

MigrationNext ==
    \/ MediaRehydrate
    \/ MigrationStep
    \/ MediaAddMediaFromUrl
    \/ UrlSaveStep
    \/ Restart

MigrationSpec == Init /\ [][MigrationNext]_vars

\* the items of files the migration scan selects
Selected(files) == {files[i].id : i \in {j \in 1..Len(files) : NeedsMigration(files[j])}}

\* C17: when the migration of an item has failed (the save threw or returned
\* the reference unchanged) and the process then restarts from the persisted
\* state, the item still carries its data: url or thumbnailUrl and the scan
\* selects it again; and a restart with no data: reference in the catalog
\* starts no migration and changes no item.
C17_FailedMigrationRetried ==
    [][lastOp'.op = "restart" =>
         /\ (lastOp.op \in MigrationSaveOps /\ lastOp.aux = {}) =>
              /\ lastOp.id \in Selected(mediaFiles')
              /\ \A i \in 1..Len(mediaFiles) : mediaFiles[i].id = lastOp.id =>
                    \E j \in 1..Len(mediaFiles') :
                        /\ mediaFiles'[j].id = lastOp.id
                        /\ mediaFiles'[j].url = mediaFiles[i].url
                        /\ mediaFiles'[j].thumbnailUrl = mediaFiles[i].thumbnailUrl
         /\ Selected(mediaFiles) = {} => (tasks' = {} /\ mediaFiles' = mediaFiles)
    ]_vars

----------------------------------------------------------------------------
(* Claims about the lifetime of media items (checked under MediaSpec) *)

RemovalOps == {"removeMediaFile", "clearProjectMedia", "clearAllMedia"}

\* C18 as stated: an item stays in mediaFiles until removeMediaFile for its
\* id, clearProjectMedia or clearAllMedia; no other step (a load completing,
\* a background save, the migration scan) removes an item.
C18_OnlyExplicitRemoval ==
    [][lastOp'.op \notin RemovalOps => IdsOf(mediaFiles) \subseteq IdsOf(mediaFiles')]_vars

\* C18 (amended): an item stays in mediaFiles until removeMediaFile for its
\* id, clearProjectMedia, clearAllMedia, or a loadProjectMedia that completes
\* successfully and replaces mediaFiles by the stored items of its project;
\* no other step removes an item, and removeMediaFile removes no other item.
C18_RemovalOrSuccessfulLoad ==
    [][/\ (lastOp'.op \notin RemovalOps /\
           ~(lastOp'.op = "loadProjectMedia.settled" /\ lastOp'.aux # {}))
          => IdsOf(mediaFiles) \subseteq IdsOf(mediaFiles')
       /\ lastOp'.op = "removeMediaFile"
          => IdsOf(mediaFiles') = IdsOf(mediaFiles) \ {lastOp'.id}
       /\ (lastOp'.op = "loadProjectMedia.settled" /\ lastOp'.aux # {})
          => IdsOf(mediaFiles') \subseteq StoredIds]_vars

\* a load has rejected and an item added by addMediaFromUrl, which storage
\* never held, is still in mediaFiles
C18_Witness ==
    /\ lastOp.op = "loadProjectMedia.settled"
    /\ lastOp.aux = {}
    /\ \E i \in 1..Len(mediaFiles) :
         ~mediaFiles[i].file /\ mediaFiles[i].id \notin StoredIds

\* the tasks of addMediaFile parked at the await of saveMediaFile
SavesInFlight == {t \in tasks : t.kind = "addMediaFile" /\ t.stage = "save"}

\* C19: addMediaFile(p, data) appends the new item, with an id no item or
\* stored record has and projectId = p, before any persistence step has run
\* (storage is untouched, the save is in flight); the step that ends the
\* await of the save returns the item (it is the step of that item, on
\* either outcome), and neither a rejected save nor a failed local save
\* changes which items mediaFiles holds.
C19_InsertBeforePersist ==
    [][/\ lastOp'.op = "addMediaFile" =>
            /\ lastOp'.id \notin IdsOf(mediaFiles) \cup StoredIds
            /\ Len(mediaFiles') = Len(mediaFiles) + 1
            /\ SubSeq(mediaFiles', 1, Len(mediaFiles)) = mediaFiles
            /\ mediaFiles'[Len(mediaFiles')].id = lastOp'.id
            /\ storage' = storage
            /\ \E t \in SavesInFlight' \ SavesInFlight :
                 /\ t.item = mediaFiles'[Len(mediaFiles')]
                 /\ t.projectId = t.item.projectId
       /\ lastOp'.op = "addMediaFile.saved" =>
            /\ \E t \in SavesInFlight \ SavesInFlight' : t.item.id = lastOp'.id
            /\ mediaFiles' = mediaFiles
       /\ (lastOp'.op = "addMediaFile.localSave" /\ lastOp'.aux = {}) =>
            mediaFiles' = mediaFiles
      ]_vars

\* the save of an uploaded item has rejected and the item is in mediaFiles
C19_Witness ==
    /\ lastOp.op = "addMediaFile.saved"
    /\ lastOp.aux = {}
    /\ lastOp.id \in IdsOf(mediaFiles)
    /\ lastOp.id \notin StoredIds

----------------------------------------------------------------------------
(* partialize on its own: the items handed to it are drawn from the shapes  *)
(* an in-memory item can have (url a string, an array, absent or another    *)
(* value; file present or not; ephemeral set, unset or absent).             *)

MaxPersistItems == 2     \* items of a state handed to partialize

UrlShapes ==
    {NoUrl, Blob(1, 0), Data(1), Http(1), Local(1), OtherValue,
     ArrayOf(<<>>), ArrayOf(<<Blob(1, 0)>>), ArrayOf(<<Data(1)>>), ArrayOf(<<Local(1)>>)}
ThumbShapes == {NoUrl, Data(2), Local(2), ArrayOf(<<Data(2)>>)}

PersistItemsAt(i) ==
    LET plain == {Item(i, "image", u, t, NullId, NoProject, f) :
                     u \in UrlShapes, t \in ThumbShapes, f \in BOOLEAN}
    IN  plain \cup {p @@ [ephemeral |-> e] : p \in plain, e \in BOOLEAN}

PersistInit ==
    /\ StoreIdle
    /\ SplitIdle
    /\ AdapterIdle
    /\ persistOut = <<>>
    /\ \E n \in 1..MaxPersistItems :
         persistIn \in [1..n -> UNION {PersistItemsAt(i) : i \in 1..n}]
    /\ \A i \in 1..Len(persistIn) : persistIn[i].id = i

Partialize ==
    /\ lastOp.op = "init"
    /\ persistOut' = partialize([folders |-> <<>>, mediaFiles |-> persistIn]).mediaFiles
    /\ lastOp' = Op("partialize", NullId, {})
    /\ UNCHANGED <<mediaFiles, folders, currentFolderId, isLoading, nextId, tasks,
                   storage, loadCount, revoked, revokedTwice, splitVars, adapterVars,
                   persistIn>>

PersistNext == Partialize

PersistSpec == PersistInit /\ [][PersistNext]_vars

DurableSchemes == {"http", "local-image://"}

\* the durable reference a url value stands for, if any
DurableOf(u) ==
    IF u.scheme \in DurableSchemes THEN u
    ELSE IF u.scheme = "array" /\ u.ref # <<>> /\ u.ref[1].scheme \in DurableSchemes
         THEN u.ref[1]
    ELSE NoUrl

Written == SelectSeq(persistIn, LAMBDA f : ~("ephemeral" \in DOMAIN f /\ f.ephemeral))

\* C20: every record partialize produces has no file payload and neither a
\* url nor a thumbnailUrl that is a blob: or data: reference (or anything but
\* a durable reference or nothing), whatever the shape of the item's url;
\* ephemeral items are not written, the others are written in order with
\* their durable references and their other fields unchanged.
C20_PersistedRecordsClean ==
    lastOp.op = "partialize" =>
        /\ Len(persistOut) = Len(Written)
        /\ \A j \in 1..Len(persistOut) :
             /\ persistOut[j].file = FALSE
             /\ persistOut[j].url.scheme \in DurableSchemes \cup {"none"}
             /\ persistOut[j].thumbnailUrl.scheme \in DurableSchemes \cup {"none"}
             /\ persistOut[j].url = DurableOf(Written[j].url)
             /\ persistOut[j].thumbnailUrl = DurableOf(Written[j].thumbnailUrl)
             /\ persistOut[j].id = Written[j].id
             /\ persistOut[j].type = Written[j].type
             /\ persistOut[j].folderId = Written[j].folderId
             /\ persistOut[j].projectId = Written[j].projectId

\* partialize has dropped an ephemeral item and has written an item whose url
\* was a one-element array of a data: URL and whose thumbnail was durable
C20_Witness ==
    /\ lastOp.op = "partialize"
    /\ Len(persistIn) = 2 /\ Len(persistOut) = 1
    /\ "ephemeral" \in DOMAIN persistIn[1] /\ persistIn[1].ephemeral
    /\ persistIn[2].url = ArrayOf(<<Data(1)>>) /\ persistIn[2].file
    /\ persistIn[2].thumbnailUrl = Local(2)
    /\ persistOut[1].url = NoUrl /\ persistOut[1].thumbnailUrl = Local(2)

----------------------------------------------------------------------------
(* IndexedDBAdapter.deleteDatabase (lines 844-855).  The engine holds a     *)
(* delete request back while a connection to the database is open, tells   *)
(* the request so once (blocked), and completes the delete when the last    *)
(* connection has been closed.  The connections are those of the adapter's  *)
(* calls, which close them in their finally blocks.                         *)

MaxDeletes == 2          \* calls of deleteDatabase in one behaviour
MaxDeleteCalls == 2      \* calls made on the adapter next to them

OpenConnections == {n \in 1..Len(opens) : opens[n] = "success" /\ n \notin closed}

\* resolve() and reject() of a promise: a settled promise stays as it is
Resolve(promise) == IF promise = "pending" THEN "resolved" ELSE promise
Reject(promise) == IF promise = "pending" THEN "rejected" ELSE promise

\* a plausible slip: a blocked delete is reported as a failure
onblockedRejects(promise) == Reject(promise)

\* lines 849-853: the handler warns and leaves the promise alone
onblocked(promise) == promise

\* lines 845-846: the promise is made and the request issued
DeleteDatabase ==
    /\ deletion.made < MaxDeletes
    /\ deletion.promise # "pending"
    /\ deletion' = [request |-> "waiting", blocked |-> FALSE, promise |-> "pending",
                    made |-> deletion.made + 1]
    /\ lastCall' = [step |-> "deleteDatabase", call |-> 0, open |-> 0]
    /\ UNCHANGED <<dbPromise, opens, closed, calls, dbStore, persistVars, storeVars,
                   splitVars>>

\* request.onblocked: a connection is still open
DeleteBlocked ==
    /\ deletion.request = "waiting"
    /\ ~deletion.blocked
    /\ OpenConnections # {}
    /\ deletion' = [deletion EXCEPT !.blocked = TRUE, !.promise = onblocked(@)]
    /\ lastCall' = [step |-> "onblocked", call |-> 0, open |-> 0]
    /\ UNCHANGED <<dbPromise, opens, closed, calls, dbStore, persistVars, storeVars,
                   splitVars>>

\* request.onsuccess (line 848): no connection is open, the database is gone
DeleteSuccess ==
    /\ deletion.request = "waiting"
    /\ OpenConnections = {}
    /\ deletion' = [deletion EXCEPT !.request = "done", !.promise = Resolve(@)]
    /\ dbStore' = {}
    /\ lastCall' = [step |-> "delete-onsuccess", call |-> 0, open |-> 0]
    /\ UNCHANGED <<dbPromise, opens, closed, calls, persistVars, storeVars, splitVars>>

\* request.onerror (line 847): the engine could not delete the database
DeleteError ==
    /\ deletion.request = "waiting"
    /\ OpenConnections = {}
    /\ deletion' = [deletion EXCEPT !.request = "failed", !.promise = Reject(@)]
    /\ lastCall' = [step |-> "delete-onerror", call |-> 0, open |-> 0]
    /\ UNCHANGED <<dbPromise, opens, closed, calls, dbStore, persistVars, storeVars,
                   splitVars>>

DeleteCallStart == Len(calls) < MaxDeleteCalls /\ CallStart

DeleteNext ==
    \/ DeleteCallStart
    \/ OpenSuccess
    \/ OpenError
    \/ RequestSettles
    \/ DeleteDatabase
    \/ DeleteBlocked
    \/ DeleteSuccess
    \/ DeleteError

\* the engine delivers the events of its requests: the request of a call
\* settles (and its finally closes the connection), an open request settles,
\* and a delete request that nothing holds back completes
DeleteSpec ==
    /\ Init
    /\ [][DeleteNext]_vars
    /\ WF_vars(RequestSettles)
    /\ WF_vars(OpenSuccess \/ OpenError)
    /\ WF_vars(DeleteSuccess \/ DeleteError)

\* C21: the blocked event leaves the promise of deleteDatabase pending; the
\* promise resolves in the step in which the delete succeeds, which happens
\* only when no connection is open any more, and it rejects only on an error
\* event; a blocked delete is eventually settled.
C21_BlockedIsPendingSuccess ==
    /\ [][/\ lastCall'.step = "onblocked" =>
               (deletion.promise = "pending" /\ deletion'.promise = "pending")
          /\ lastCall'.step = "delete-onsuccess" =>
               (deletion'.promise = "resolved" /\ OpenConnections = {})
          /\ (deletion.promise = "pending" /\ deletion'.promise = "rejected") =>
               lastCall'.step = "delete-onerror"
          /\ (deletion.promise = "pending" /\ deletion'.promise = "resolved") =>
               lastCall'.step = "delete-onsuccess"
         ]_vars
    /\ [](deletion.blocked /\ deletion.promise = "pending"
             => <>(deletion.promise # "pending"))

\* a delete that was blocked by an open connection has resolved
C21_Witness ==
    /\ deletion.blocked
    /\ deletion.promise = "resolved"
    /\ lastCall.step = "delete-onsuccess"
    /\ closed # {}

----------------------------------------------------------------------------
(* The migration scan on its own: saveImageToLocal settles every call made  *)
(* to it (with a path, the reference unchanged, or an exception), so the    *)
(* await the scan is parked at is eventually resumed.                       *)

MaxScanIds == 5          \* ids in use after a rehydration (ScanSpec)

ScanRehydrate == RehydrateWith(InlineCatalogs, MaxScanIds)
ScanRemoveMediaFile == RemoveMediaFileWith({NoProject})

ScanNext ==
    \/ ScanRehydrate
    \/ MigrationStep
    \/ ScanRemoveMediaFile
    \/ DeleteMediaFileSettled
    \/ ClearAllMedia
    \/ Restart

ScanSpec == Init /\ [][ScanNext]_vars /\ WF_vars(MigrationStep)

Scans == {t \in tasks : t.kind = "migrateMediaDataUrls"}

\* C22: a save of the migration scan that throws leaves mediaFiles as it was
\* and does not end the scan: after any save has settled the scan stands at
\* the thumbnail of the same item, or at the next selected item, or is done
\* when none is left, and it terminates; mediaFiles is written only when the
\* save returned a local-image:// reference, and then only the migrated field
\* of that item changes.
C22_ScanItemsIndependent ==
    /\ [][lastOp'.op \in MigrationSaveOps =>
            \A t \in Scans :
                LET after == {u \in tasks' : u.kind = "migrateMediaDataUrls"} IN
                /\ lastOp'.op = "migrateMediaDataUrls.catch" => mediaFiles' = mediaFiles
                /\ Len(mediaFiles') = Len(mediaFiles)
                /\ \A i \in 1..Len(mediaFiles) :
                     mediaFiles'[i] # mediaFiles[i] =>
                        /\ mediaFiles[i].id = t.item.id
                        /\ lastOp'.aux = {t.item.id}
                        /\ IF t.stage = "url"
                           THEN mediaFiles'[i] =
                                  [mediaFiles[i] EXCEPT !.url = Local(t.item.id)]
                           ELSE mediaFiles'[i] =
                                  [mediaFiles[i] EXCEPT !.thumbnailUrl = Local(t.item.id)]
                /\ \/ /\ t.stage = "url"
                      /\ lastOp'.op # "migrateMediaDataUrls.catch"
                      /\ after = {[t EXCEPT !.stage = "thumb"]}
                   \/ /\ t.queue # <<>>
                      /\ \E u \in after : u.item = Head(t.queue) /\ u.queue = Tail(t.queue)
                   \/ /\ t.queue = <<>>
                      /\ after = {}
         ]_vars
    /\ [](Scans # {} => <>(Scans = {}))

\* the save of the first item has thrown, the item has kept its data: URL,
\* and the scan stands at the second item
C22_Witness ==
    /\ lastOp.op = "migrateMediaDataUrls.catch"
    /\ lastOp.id = 1
    /\ Len(mediaFiles) = 2
    /\ StartsWithData(mediaFiles[1].url)
    /\ \E t \in Scans : t.item.id = 2 /\ t.stage = "thumb" /\ t.queue = <<>>

----------------------------------------------------------------------------
(* Two overlapping loads: loadProjectMedia(p1), then loadProjectMedia(p2)   *)
(* before the read of the first has settled, with items stored for both     *)
(* projects.  The two reads settle in either order.                         *)

RaceAddMediaFile ==
    /\ nextId <= MaxMediaIds
    /\ loadCount = 0
    /\ AddMediaFileWith({"p1", OtherProject}, {"image"}, {NullId}, MaxMediaItems)
RaceLoadFirst == loadCount = 0 /\ LoadProjectMediaStartWith({"p1"})
RaceLoadSecond ==
    /\ loadCount = 1
    /\ LoadsInFlight # {}
    /\ LoadProjectMediaStartWith({OtherProject})

RaceNext ==
    \/ RaceAddMediaFile
    \/ AddMediaFileSaved
    \/ RaceLoadFirst
    \/ RaceLoadSecond
    \/ LoadProjectMediaSettled

RaceSpec == Init /\ [][RaceNext]_vars

\* the items stored for a project
StoredFor(projectId) == {r.item.id : r \in {q \in storage : q.projectId = projectId}}

\* C23: when loadProjectMedia(p1) and then loadProjectMedia(p2) overlap and
\* both reads succeed, then once both calls have completed mediaFiles holds
\* the items loaded for p2, whether the read for p2 finishes last or the read
\* for p1 does (the read for p2 having just finished before it).
C23_LatestRequestWins ==
    [][(/\ lastOp'.op = "loadProjectMedia.settled"
        /\ lastOp'.aux # {}
        /\ loadCount = 2
        /\ LoadsInFlight' = {}
        /\ lastOp'.id = 1 => lastOp = Op("loadProjectMedia.settled", 2, {2}))
          => /\ IdsOf(mediaFiles') = StoredFor(OtherProject)
             /\ \A i \in 1..Len(mediaFiles') : mediaFiles'[i].projectId = OtherProject
      ]_vars

\* C24: isLoading is true in every state in which a call of loadProjectMedia
\* has started and has not finished, also when calls overlap and one of them
\* finishes before the others.
C24_LoadingWhileInFlight == LoadsInFlight # {} => isLoading = TRUE

----------------------------------------------------------------------------
(* The forest of folders: the operations that add and remove folders,       *)
(* started from the empty catalog.  A caller of addFolder passes any id it  *)
(* has seen as parentId, also the id of a folder that is gone or the id of  *)
(* no folder; it cannot pass the id generateUUID is about to make.          *)

ForestAddFolder ==
    AddFolderWith({"Clips"}, {NullId} \cup KnownIds, {NoProject}, MaxTreeFolders)

ForestNext ==
    \/ ForestAddFolder
    \/ DeleteFolder
    \/ TreeGetOrCreateCategoryFolder
    \/ InitSystemFolders
    \/ ClearAllMedia

ForestSpec == Init /\ [][ForestNext]_vars

\* the parentId of the folder with this id
ParentOf(fs, id) == fs[CHOOSE i \in 1..Len(fs) : fs[i].id = id].parentId

\* following parentId from id reaches null or the id of no folder within
\* fuel steps
RECURSIVE ChainEnds(_, _, _)
ChainEnds(fs, id, fuel) ==
    IF id = NullId \/ id \notin IdsOf(fs) THEN TRUE
    ELSE IF fuel = 0 THEN FALSE
    ELSE ChainEnds(fs, ParentOf(fs, id), fuel - 1)

\* the recursion of getDescendantIds from folderId returns within fuel
\* nested calls
RECURSIVE ClosureReturns(_, _, _)
ClosureReturns(fs, folderId, fuel) ==
    \A i \in 1..Len(fs) :
        fs[i].parentId = folderId => (fuel > 0 /\ ClosureReturns(fs, fs[i].id, fuel - 1))

\* C25: in every state reached from the empty catalog the parentId relation
\* has no cycle (from every folder the chain of parentIds ends at null or at
\* the id of no folder within as many steps as there are folders), and the
\* descendant closure of deleteFolder returns for every id, of a folder that
\* exists, of one that is gone and of none.
C25_ParentRelationAcyclic ==
    /\ \A id \in IdsOf(folders) : ChainEnds(folders, id, Len(folders))
    /\ \A id \in KnownIds \cup {nextId} : ClosureReturns(folders, id, Len(folders))

\* deleteFolder has been called with the id of a folder that is gone and has
\* removed the folder parented under that id and the child of that folder
C25_Witness ==
    /\ lastOp.op = "deleteFolder"
    /\ lastOp.id \notin lastOp.aux
    /\ Cardinality(lastOp.aux) = 2

=============================================================================
